---- MODULE Spec2Model ----
(***************************************************************************)
(* Model of the typing-exam backend actor (src/src/backend/main.mo):       *)
(* user directory, sessions, role gating, passage store and result ledger. *)
(* Text values that the code transforms (mobiles, passwords, titles, ids,  *)
(* session tokens) are sequences of character codes; texts that are only   *)
(* stored and returned (names, contents) are strings.                      *)
(***************************************************************************)
EXTENDS Integers, Sequences, FiniteSets, TLC

(* ------------------------------ bounds --------------------------------- *)

\* Time.now() takes values in 0..MaxTime.
MaxTime == 1

\* Number of calls handled in one behaviour.
MaxCalls == 3

\* Seconds allowed for the first passage of the client; the second passage
\* allows one more.
MaxSeconds == 2

\* Number of characters the client types in one attempt.
MaxTyped == 2

\* Number of handleLogout calls of the client that await the backend at once.
MaxAwait == 2

(* ------------------------------ inputs --------------------------------- *)

Principals == {"p1", "p2"}

\* names given at registration; saveCallerUserProfile stores "Bob" and
\* addAdmin "admin"
Names == {"Alice", "Carol"}

\* "8055926965", the literal of addAdmin
adminMobile == <<56, 48, 53, 53, 57, 50, 54, 57, 54, 53>>

\* "admin123", the literal of addAdmin
adminPassword == <<97, 100, 109, 105, 110, 49, 50, 51>>

\* "9" and the well-known admin number
Mobiles == {<<57>>, adminMobile}

\* (name, mobile) arguments of registerUser
Registrations == {<<"Alice", <<57>>>>, <<"Carol", adminMobile>>}

\* passwords given at registration: "a" and "{"
Passwords == {<<97>>, <<123>>}

\* passwords tried at login: those, and "|", whose hash is that of "{"
LoginPasswords == Passwords \cup {<<124>>}

Roles == {"admin", "user", "guest"}

Times == 0..MaxTime

\* (title, content, minutes) arguments of addPassage and updatePassage
PassageInputs == {<<<<97>>, "c1", 5>>, <<<<98>>, "c1", 5>>, <<<<97>>, "c2", 10>>}

\* (userName, userMobile, passageTitle, wpm, accuracy, mistakes)
ResultInputs == {<<"Alice", <<57>>, "T1", 40, 95, 2>>,
                 <<"Bob", <<57>>, "T2", 30, 90, 5>>,
                 <<"Bob", <<56>>, "T2", 30, 90, 5>>}

\* titles of the sample passages of seedData
TitleNature ==
  <<84, 104, 101, 32, 66, 101, 97, 117, 116, 121, 32, 111, 102, 32,
    78, 97, 116, 117, 114, 101>>

TitleTechnology ==
  <<65, 100, 118, 97, 110, 99, 101, 109, 101, 110, 116, 115, 32, 105, 110,
    32, 84, 101, 99, 104, 110, 111, 108, 111, 103, 121>>

TitleHistory ==
  <<65, 32, 74, 111, 117, 114, 110, 101, 121, 32, 84, 104, 114, 111, 117,
    103, 104, 32, 72, 105, 115, 116, 111, 114, 121>>

\* the sample contents, abbreviated to their first sentence
ContentNature ==
  "Nature is a magnificent tapestry of life that surrounds us every day."

ContentTechnology ==
  "Technology has rapidly transformed the way we live, work, and communicate."

ContentHistory ==
  "History is a record of human experiences, achievements, and lessons learned over centuries."

(* --------------------------- pure functions ---------------------------- *)

EmptyMap == [x \in {} |-> x]

Put(m, k, v) == [x \in (DOMAIN m) \cup {k} |-> IF x = k THEN v ELSE m[x]]

Remove(m, k) == [x \in (DOMAIN m) \ {k} |-> m[x]]

\* one character of hashPassword without the raise to 33
hashChar_NoClamp(code) == (code + 3) % 126

\* one character of hashPassword: (code + 3) % 126, raised to 33 when below
hashChar(code) ==
  LET newCode == (code + 3) % 126
  IN  IF newCode < 33 THEN 33 ELSE newCode

hashPassword(password) == [i \in DOMAIN password |-> hashChar(password[i])]

\* Int.toText of a non-negative number: its decimal digits
RECURSIVE toText(_)
toText(n) ==
  IF n < 10 THEN <<48 + n>> ELSE toText(n \div 10) \o <<48 + (n % 10)>>

\* Text.compare(a, b) = #less: lexicographic on character codes
RECURSIVE TextLess(_, _)
TextLess(a, b) ==
  IF b = <<>> THEN FALSE
  ELSE IF a = <<>> THEN TRUE
  ELSE IF a[1] # b[1] THEN a[1] < b[1]
  ELSE TextLess(Tail(a), Tail(b))

\* profiles a caller passes to saveCallerUserProfile: name "Bob", either
\* mobile, the credential of password "a", no session or the token of
\* mobile "9" at time 0
SavedProfiles ==
  {[name |-> "Bob", mobile |-> m, passwordHash |-> hashPassword(<<97>>),
    sessionId |-> s] :
     m \in Mobiles, s \in {<<>>, hashPassword(<<57>> \o toText(0))}}

(* --------------------------- access control ---------------------------- *)

getUserRole(roles, caller) ==
  IF caller \in DOMAIN roles THEN roles[caller] ELSE "guest"

isAdmin(roles, caller) == getUserRole(roles, caller) = "admin"

\* hasPermission that compares the role for equality only
hasPermission_ExactRole(roles, caller, requiredRole) ==
  getUserRole(roles, caller) = requiredRole

hasPermission(roles, caller, requiredRole) ==
  LET role == getUserRole(roles, caller)
  IN  IF role = "admin" \/ requiredRole = "guest" THEN TRUE
      ELSE role = requiredRole

assignRole(roles, caller, user, role) == Put(roles, user, role)

(* -------------------------------- state -------------------------------- *)

VARIABLES
  userProfiles,   \* Principal -> UserProfile
  mobileToUser,   \* mobile -> Principal
  passages,       \* passage id -> Passage
  testResults,    \* result id -> TestResult
  userRoles,      \* Principal -> role
  now,            \* the latest value Time.now() returned
  calls,          \* number of calls handled
  last,           \* the latest call: operation, caller, arguments, outcome
  issued,         \* <<mobile, token>> pairs returned by successful logins
  stale,          \* issued pairs followed by a later successful login
  regPassword,    \* mobile -> password given when the mobile was registered
  regCredential,  \* mobile -> credential stored when the mobile was registered
  submittedAt     \* result id -> number of the latest call that stored it

\* the state of one browser tab running the frontend
VARIABLES
  storage,        \* localStorage[SESSION_KEY]: {} when absent, else {text}
  session,        \* AuthProvider's session: {} when null, else {SessionData}
  actor,          \* whether useActor has delivered the backend actor
  awaiting,       \* handleLogout calls waiting for actor.logout to settle
  selectedPassage, \* 0 when no passage is selected, else its number
  typedText,      \* number of characters in the textarea
  typedTextRef,   \* typedTextRef.current
  timerStarted,
  timeLeft,
  timer,          \* whether the interval of timerRef is set
  submitted,
  submittedRef,   \* submittedRef.current
  examResult,     \* NoResult, or the length of the text of the result
  uncommitted,    \* state set by the timer that React has not rendered yet
  sends,          \* submitTestResult calls sent in the current attempt
  event           \* the latest step of the client

exam == <<selectedPassage, typedText, typedTextRef, timerStarted, timeLeft,
          timer, submitted, submittedRef, examResult, uncommitted, sends>>

client == <<storage, session, actor, awaiting, exam, event>>

stores == <<userProfiles, mobileToUser, passages, testResults, userRoles>>

history == <<issued, stale, regPassword, regCredential, submittedAt>>

backend == <<userProfiles, mobileToUser, passages, testResults, userRoles,
             now, calls, last, issued, stale, regPassword, regCredential,
             submittedAt>>

vars == <<backend, client>>

NoCall ==
  [op |-> "none", caller |-> "none", status |-> "ok", msg |-> "",
   name |-> "", mobile |-> <<>>, password |-> <<>>, id |-> <<>>,
   retMobile |-> <<>>, sessionId |-> <<>>, role |-> "guest",
   user |-> "none",
   flag |-> FALSE, list |-> <<>>]

Call(op, caller) == [NoCall EXCEPT !.op = op, !.caller = caller]

Trap(call, msg) == [call EXCEPT !.status = "trap", !.msg = msg]

\* one more call is handled; the client is not part of the actor
Step ==
  /\ calls < MaxCalls
  /\ calls' = calls + 1
  /\ UNCHANGED client

\* Time.now() returns t, not less than what it returned before
Clock(t) ==
  /\ t \in Times
  /\ t >= now
  /\ now' = t

\* the call ends without reading Time.now()
NoClock(t) ==
  /\ t = now
  /\ now' = now

\* examResult when it is null
NoResult == 0 - 1

\* the page is loaded for the first time: nothing is stored, and the state
\* of ExamInterface is the one its useState and useRef calls start with
ClientInit ==
  /\ storage = {}
  /\ session = {}
  /\ actor = FALSE
  /\ awaiting = 0
  /\ selectedPassage = 0
  /\ typedText = 0
  /\ typedTextRef = 0
  /\ timerStarted = FALSE
  /\ timeLeft = 0
  /\ timer = FALSE
  /\ submitted = FALSE
  /\ submittedRef = FALSE
  /\ examResult = NoResult
  /\ uncommitted = FALSE
  /\ sends = 0
  /\ event = "none"

Init ==
  /\ ClientInit
  /\ userProfiles = EmptyMap
  /\ mobileToUser = EmptyMap
  /\ passages = EmptyMap
  /\ testResults = EmptyMap
  /\ userRoles = EmptyMap
  /\ now = 0
  /\ calls = 0
  /\ last = NoCall
  /\ issued = {}
  /\ stale = {}
  /\ regPassword = EmptyMap
  /\ regCredential = EmptyMap
  /\ submittedAt = EmptyMap

(* --------------------------- user directory ---------------------------- *)

\* registerUser without the test that the mobile is already indexed
registerUser_NoDuplicateCheck(caller, name, mobile, password) ==
  /\ Step
  /\ now' = now
  /\ userProfiles' = Put(userProfiles, caller,
                         [name |-> name, mobile |-> mobile,
                          passwordHash |-> hashPassword(password),
                          sessionId |-> <<>>])
  /\ mobileToUser' = Put(mobileToUser, mobile, caller)
  /\ userRoles' = assignRole(userRoles, caller, caller, "user")
  /\ regPassword' = Put(regPassword, mobile, password)
  /\ regCredential' = Put(regCredential, mobile,
                          userProfiles'[caller].passwordHash)
  /\ last' = [Call("registerUser", caller) EXCEPT
                !.name = name, !.mobile = mobile, !.password = password]
  /\ UNCHANGED <<passages, testResults, issued, stale, submittedAt>>

\* registerUser that grants the admin role instead of the user role
registerUser_GrantsAdmin(caller, name, mobile, password) ==
  /\ Step
  /\ now' = now
  /\ IF mobile \in DOMAIN mobileToUser
     THEN /\ last' = Trap([Call("registerUser", caller) EXCEPT
                             !.name = name, !.mobile = mobile,
                             !.password = password],
                          "Mobile number already registered")
          /\ UNCHANGED <<stores, history>>
     ELSE /\ userProfiles' = Put(userProfiles, caller,
                                 [name |-> name, mobile |-> mobile,
                                  passwordHash |-> hashPassword(password),
                                  sessionId |-> <<>>])
          /\ mobileToUser' = Put(mobileToUser, mobile, caller)
          /\ userRoles' = assignRole(userRoles, caller, caller, "admin")
          /\ regPassword' = Put(regPassword, mobile, password)
          /\ regCredential' = Put(regCredential, mobile,
                                  userProfiles'[caller].passwordHash)
          /\ last' = [Call("registerUser", caller) EXCEPT
                        !.name = name, !.mobile = mobile,
                        !.password = password]
          /\ UNCHANGED <<passages, testResults, issued, stale, submittedAt>>

\* registerUser that derives the credential from the mobile and the password
registerUser_SaltedWithMobile(caller, name, mobile, password) ==
  LET call == [Call("registerUser", caller) EXCEPT
                 !.name = name, !.mobile = mobile, !.password = password]
      userProfile == [name |-> name, mobile |-> mobile,
                      passwordHash |-> hashPassword(mobile \o password),
                      sessionId |-> <<>>]
  IN  /\ Step
      /\ now' = now
      /\ IF mobile \in DOMAIN mobileToUser
         THEN /\ last' = Trap(call, "Mobile number already registered")
              /\ UNCHANGED <<stores, history>>
         ELSE /\ userProfiles' = Put(userProfiles, caller, userProfile)
              /\ mobileToUser' = Put(mobileToUser, mobile, caller)
              /\ userRoles' = assignRole(userRoles, caller, caller, "user")
              /\ regPassword' = Put(regPassword, mobile, password)
              /\ regCredential' = Put(regCredential, mobile,
                                      userProfiles'[caller].passwordHash)
              /\ last' = call
              /\ UNCHANGED <<passages, testResults, issued, stale, submittedAt>>

registerUser(caller, name, mobile, password) ==
  LET call == [Call("registerUser", caller) EXCEPT
                 !.name = name, !.mobile = mobile, !.password = password]
      userProfile == [name |-> name, mobile |-> mobile,
                      passwordHash |-> hashPassword(password),
                      sessionId |-> <<>>]
  IN  /\ Step
      /\ now' = now
      /\ IF mobile \in DOMAIN mobileToUser
         THEN /\ last' = Trap(call, "Mobile number already registered")
              /\ UNCHANGED <<stores, history>>
         ELSE /\ userProfiles' = Put(userProfiles, caller, userProfile)
              /\ mobileToUser' = Put(mobileToUser, mobile, caller)
              /\ userRoles' = assignRole(userRoles, caller, caller, "user")
              /\ regPassword' = Put(regPassword, mobile, password)
              /\ regCredential' = Put(regCredential, mobile,
                                      userProfiles'[caller].passwordHash)
              /\ last' = call
              /\ UNCHANGED <<passages, testResults, issued, stale, submittedAt>>

\* login that clears the session before it rejects a wrong password
login_ClearsOnFailure(caller, mobile, password, t) ==
  LET call == [Call("login", caller) EXCEPT
                 !.mobile = mobile, !.password = password]
  IN  /\ Step
      /\ IF mobile \notin DOMAIN mobileToUser
         THEN /\ last' = Trap(call, "User does not exist")
              /\ NoClock(t)
              /\ UNCHANGED <<stores, history>>
         ELSE LET userPrincipal == mobileToUser[mobile]
                  profile == userProfiles[userPrincipal]
                  sessionId == hashPassword(profile.mobile \o toText(t))
              IN  IF profile.passwordHash # hashPassword(password)
                  THEN /\ last' = Trap(call, "Invalid password")
                       /\ NoClock(t)
                       /\ userProfiles' =
                            Put(userProfiles, userPrincipal,
                                [profile EXCEPT !.sessionId = <<>>])
                       /\ UNCHANGED <<mobileToUser, passages, testResults,
                                      userRoles, history>>
                  ELSE /\ Clock(t)
                       /\ userProfiles' =
                            Put(userProfiles, userPrincipal,
                                [profile EXCEPT !.sessionId = sessionId])
                       /\ last' = [call EXCEPT
                                     !.name = profile.name,
                                     !.retMobile = profile.mobile,
                                     !.sessionId = sessionId]
                       /\ stale' = stale \cup {pr \in issued : pr[1] = mobile}
                       /\ issued' = issued \cup {<<mobile, sessionId>>}
                       /\ UNCHANGED <<mobileToUser, passages, testResults,
                                      userRoles, regPassword, regCredential,
                                      submittedAt>>

\* login that stores the profile with the new token under the caller
login_StoresUnderCaller(caller, mobile, password, t) ==
  LET call == [Call("login", caller) EXCEPT
                 !.mobile = mobile, !.password = password]
  IN  /\ Step
      /\ IF mobile \notin DOMAIN mobileToUser
         THEN /\ last' = Trap(call, "User does not exist")
              /\ NoClock(t)
              /\ UNCHANGED <<stores, history>>
         ELSE LET userPrincipal == mobileToUser[mobile]
              IN  IF userPrincipal \notin DOMAIN userProfiles
                  THEN /\ last' = Trap(call, "User profile not found")
                       /\ NoClock(t)
                       /\ UNCHANGED <<stores, history>>
                  ELSE LET profile == userProfiles[userPrincipal]
                           sessionId == hashPassword(profile.mobile \o toText(t))
                       IN  IF profile.passwordHash # hashPassword(password)
                           THEN /\ last' = Trap(call, "Invalid password")
                                /\ NoClock(t)
                                /\ UNCHANGED <<stores, history>>
                           ELSE /\ Clock(t)
                                /\ userProfiles' =
                                     Put(userProfiles, caller,
                                         [profile EXCEPT !.sessionId = sessionId])
                                /\ last' = [call EXCEPT
                                              !.name = profile.name,
                                              !.mobile = mobile,
                                              !.retMobile = profile.mobile,
                                              !.sessionId = sessionId]
                                /\ stale' = stale \cup
                                     {pr \in issued : pr[1] = mobile}
                                /\ issued' = issued \cup {<<mobile, sessionId>>}
                                /\ UNCHANGED <<mobileToUser, passages,
                                               testResults, userRoles,
                                               regPassword, regCredential,
                                               submittedAt>>

login(caller, mobile, password, t) ==
  LET call == [Call("login", caller) EXCEPT
                 !.mobile = mobile, !.password = password]
  IN  /\ Step
      /\ IF mobile \notin DOMAIN mobileToUser
         THEN /\ last' = Trap(call, "User does not exist")
              /\ NoClock(t)
              /\ UNCHANGED <<stores, history>>
         ELSE LET userPrincipal == mobileToUser[mobile]
              IN  IF userPrincipal \notin DOMAIN userProfiles
                  THEN /\ last' = Trap(call, "User profile not found")
                       /\ NoClock(t)
                       /\ UNCHANGED <<stores, history>>
                  ELSE LET profile == userProfiles[userPrincipal]
                           sessionId == hashPassword(profile.mobile \o toText(t))
                       IN  IF profile.passwordHash # hashPassword(password)
                           THEN /\ last' = Trap(call, "Invalid password")
                                /\ NoClock(t)
                                /\ UNCHANGED <<stores, history>>
                           ELSE /\ Clock(t)
                                /\ userProfiles' =
                                     Put(userProfiles, userPrincipal,
                                         [profile EXCEPT !.sessionId = sessionId])
                                /\ last' = [call EXCEPT
                                              !.name = profile.name,
                                              !.mobile = mobile,
                                              !.retMobile = profile.mobile,
                                              !.sessionId = sessionId]
                                /\ stale' = stale \cup
                                     {pr \in issued : pr[1] = mobile}
                                /\ issued' = issued \cup {<<mobile, sessionId>>}
                                /\ UNCHANGED <<mobileToUser, passages,
                                               testResults, userRoles,
                                               regPassword, regCredential,
                                               submittedAt>>

\* checkSessionValid that accepts the empty session id of an unknown mobile
SessionValid_UnknownAccepted(profiles, index, mobile, sessionId) ==
  IF mobile \notin DOMAIN index THEN sessionId = <<>>
  ELSE IF index[mobile] \notin DOMAIN profiles THEN sessionId = <<>>
  ELSE profiles[index[mobile]].sessionId = sessionId

\* the value checkSessionValid returns in a state with these two maps
SessionValid(profiles, index, mobile, sessionId) ==
  IF mobile \notin DOMAIN index THEN FALSE
  ELSE IF index[mobile] \notin DOMAIN profiles THEN FALSE
  ELSE profiles[index[mobile]].sessionId = sessionId

checkSessionValid(caller, mobile, sessionId) ==
  /\ Step
  /\ now' = now
  /\ last' = [Call("checkSessionValid", caller) EXCEPT
                !.mobile = mobile, !.sessionId = sessionId,
                !.flag = SessionValid(userProfiles, mobileToUser,
                                      mobile, sessionId)]
  /\ UNCHANGED <<stores, history>>

\* logout that stores the profile back without clearing its session
logout_KeepsSession(caller, mobile) ==
  LET call == [Call("logout", caller) EXCEPT !.mobile = mobile]
  IN  /\ Step
      /\ now' = now
      /\ IF mobile \notin DOMAIN mobileToUser
         THEN /\ last' = Trap(call, "User does not exist")
              /\ UNCHANGED <<stores, history>>
         ELSE IF caller # mobileToUser[mobile] /\ ~isAdmin(userRoles, caller)
         THEN /\ last' = Trap(call, "Unauthorized: Can only logout yourself")
              /\ UNCHANGED <<stores, history>>
         ELSE /\ last' = call
              /\ UNCHANGED <<stores, history>>

\* logout without the owner-or-admin test
logout_NoOwnerCheck(caller, mobile) ==
  LET call == [Call("logout", caller) EXCEPT !.mobile = mobile]
  IN  /\ Step
      /\ now' = now
      /\ IF mobile \notin DOMAIN mobileToUser
         THEN /\ last' = Trap(call, "User does not exist")
              /\ UNCHANGED <<stores, history>>
         ELSE /\ userProfiles' =
                   Put(userProfiles, mobileToUser[mobile],
                       [userProfiles[mobileToUser[mobile]] EXCEPT
                          !.sessionId = <<>>])
              /\ last' = call
              /\ UNCHANGED <<mobileToUser, passages, testResults,
                             userRoles, history>>

logout(caller, mobile) ==
  LET call == [Call("logout", caller) EXCEPT !.mobile = mobile]
  IN  /\ Step
      /\ now' = now
      /\ IF mobile \notin DOMAIN mobileToUser
         THEN /\ last' = Trap(call, "User does not exist")
              /\ UNCHANGED <<stores, history>>
         ELSE LET userPrincipal == mobileToUser[mobile]
              IN  IF caller # userPrincipal /\ ~isAdmin(userRoles, caller)
                  THEN /\ last' = Trap(call,
                                       "Unauthorized: Can only logout yourself")
                       /\ UNCHANGED <<stores, history>>
                  ELSE IF userPrincipal \notin DOMAIN userProfiles
                  THEN /\ last' = Trap(call, "User profile not found")
                       /\ UNCHANGED <<stores, history>>
                  ELSE /\ userProfiles' =
                            Put(userProfiles, userPrincipal,
                                [userProfiles[userPrincipal] EXCEPT
                                   !.sessionId = <<>>])
                       /\ last' = call
                       /\ UNCHANGED <<mobileToUser, passages, testResults,
                                      userRoles, history>>

(* ------------------------------ profiles ------------------------------- *)

getCallerUserProfile(caller) ==
  LET call == Call("getCallerUserProfile", caller)
  IN  /\ Step
      /\ now' = now
      /\ IF ~hasPermission(userRoles, caller, "user")
         THEN last' = Trap(call, "Unauthorized: Only users can view profiles")
         ELSE last' = [call EXCEPT !.list =
                         IF caller \in DOMAIN userProfiles
                         THEN <<userProfiles[caller]>> ELSE <<>>]
      /\ UNCHANGED <<stores, history>>

\* getUserProfile without the test that the caller is the target or admin
getUserProfile_NoOwnerCheck(caller, user) ==
  LET call == [Call("getUserProfile", caller) EXCEPT !.user = user]
  IN  /\ Step
      /\ now' = now
      /\ last' = [call EXCEPT !.list =
                    IF user \in DOMAIN userProfiles
                    THEN <<userProfiles[user]>> ELSE <<>>]
      /\ UNCHANGED <<stores, history>>

getUserProfile(caller, user) ==
  LET call == [Call("getUserProfile", caller) EXCEPT !.user = user]
  IN  /\ Step
      /\ now' = now
      /\ IF caller # user /\ ~isAdmin(userRoles, caller)
         THEN last' = Trap(call, "Unauthorized: Can only view your own profile")
         ELSE last' = [call EXCEPT !.list =
                         IF user \in DOMAIN userProfiles
                         THEN <<userProfiles[user]>> ELSE <<>>]
      /\ UNCHANGED <<stores, history>>

\* saveCallerUserProfile without the capability test
saveCallerUserProfile_NoGate(caller, profile) ==
  /\ Step
  /\ now' = now
  /\ userProfiles' = Put(userProfiles, caller, profile)
  /\ last' = [Call("saveCallerUserProfile", caller) EXCEPT
                !.list = <<profile>>]
  /\ UNCHANGED <<mobileToUser, passages, testResults, userRoles, history>>

saveCallerUserProfile(caller, profile) ==
  LET call == [Call("saveCallerUserProfile", caller) EXCEPT
                 !.list = <<profile>>]
  IN  /\ Step
      /\ now' = now
      /\ IF ~hasPermission(userRoles, caller, "user")
         THEN /\ last' = Trap(call, "Unauthorized: Only users can save profiles")
              /\ UNCHANGED <<stores, history>>
         ELSE /\ userProfiles' = Put(userProfiles, caller, profile)
              /\ last' = call
              /\ UNCHANGED <<mobileToUser, passages, testResults, userRoles,
                             history>>

(* ------------------------------ passages ------------------------------- *)

\* the stored passages by descending id
RECURSIVE SortedById_Descending(_)
SortedById_Descending(m) ==
  IF DOMAIN m = {} THEN <<>>
  ELSE LET greatest == CHOOSE k \in DOMAIN m :
                         \A j \in DOMAIN m : j = k \/ TextLess(j, k)
       IN  <<m[greatest]>> \o SortedById_Descending(Remove(m, greatest))

\* passages.values().toArray().sort(): the stored passages by ascending id
RECURSIVE SortedById(_)
SortedById(m) ==
  IF DOMAIN m = {} THEN <<>>
  ELSE LET least == CHOOSE k \in DOMAIN m :
                      \A j \in DOMAIN m : j = k \/ TextLess(k, j)
       IN  <<m[least]>> \o SortedById(Remove(m, least))

getPassages(caller) ==
  LET call == Call("getPassages", caller)
  IN  /\ Step
      /\ now' = now
      /\ IF ~hasPermission(userRoles, caller, "user")
         THEN last' = Trap(call, "Unauthorized: Only users can view passages")
         ELSE last' = [call EXCEPT !.list = SortedById(passages)]
      /\ UNCHANGED <<stores, history>>

\* addPassage gated on the user capability instead of admin
addPassage_UserGate(caller, title, content, timeMinutes, t) ==
  LET call == [Call("addPassage", caller) EXCEPT
                 !.list = <<title, content, timeMinutes>>]
      id == hashPassword(title \o toText(t))
  IN  /\ Step
      /\ IF ~hasPermission(userRoles, caller, "user")
         THEN /\ last' = Trap(call, "Unauthorized: Only admins can add passages")
              /\ NoClock(t)
              /\ UNCHANGED <<stores, history>>
         ELSE /\ Clock(t)
              /\ passages' = Put(passages, id,
                                 [id |-> id, title |-> title,
                                  content |-> content,
                                  timeMinutes |-> timeMinutes])
              /\ last' = [call EXCEPT !.id = id]
              /\ UNCHANGED <<userProfiles, mobileToUser, testResults,
                             userRoles, history>>

addPassage(caller, title, content, timeMinutes, t) ==
  LET call == [Call("addPassage", caller) EXCEPT
                 !.list = <<title, content, timeMinutes>>]
      id == hashPassword(title \o toText(t))
      passage == [id |-> id, title |-> title, content |-> content,
                  timeMinutes |-> timeMinutes]
  IN  /\ Step
      /\ IF ~hasPermission(userRoles, caller, "admin")
         THEN /\ last' = Trap(call, "Unauthorized: Only admins can add passages")
              /\ NoClock(t)
              /\ UNCHANGED <<stores, history>>
         ELSE /\ Clock(t)
              /\ passages' = Put(passages, id, passage)
              /\ last' = [call EXCEPT !.id = id]
              /\ UNCHANGED <<userProfiles, mobileToUser, testResults,
                             userRoles, history>>

\* updatePassage that derives the id field again from the new title
updatePassage_RederivesId(caller, id, title, content, timeMinutes) ==
  LET call == [Call("updatePassage", caller) EXCEPT
                 !.id = id, !.list = <<title, content, timeMinutes>>]
  IN  /\ Step
      /\ now' = now
      /\ IF ~hasPermission(userRoles, caller, "admin")
         THEN /\ last' = Trap(call,
                              "Unauthorized: Only admins can update passages")
              /\ UNCHANGED <<stores, history>>
         ELSE IF id \notin DOMAIN passages
         THEN /\ last' = Trap(call, "Passage does not exist")
              /\ UNCHANGED <<stores, history>>
         ELSE /\ passages' =
                   Put(passages, id,
                       [id |-> hashPassword(title), title |-> title,
                        content |-> content, timeMinutes |-> timeMinutes])
              /\ last' = call
              /\ UNCHANGED <<userProfiles, mobileToUser, testResults,
                             userRoles, history>>

updatePassage(caller, id, title, content, timeMinutes) ==
  LET call == [Call("updatePassage", caller) EXCEPT
                 !.id = id, !.list = <<title, content, timeMinutes>>]
  IN  /\ Step
      /\ now' = now
      /\ IF ~hasPermission(userRoles, caller, "admin")
         THEN /\ last' = Trap(call,
                              "Unauthorized: Only admins can update passages")
              /\ UNCHANGED <<stores, history>>
         ELSE IF id \notin DOMAIN passages
         THEN /\ last' = Trap(call, "Passage does not exist")
              /\ UNCHANGED <<stores, history>>
         ELSE /\ passages' =
                   Put(passages, id,
                       [passages[id] EXCEPT !.title = title,
                                            !.content = content,
                                            !.timeMinutes = timeMinutes])
              /\ last' = call
              /\ UNCHANGED <<userProfiles, mobileToUser, testResults,
                             userRoles, history>>

\* deletePassage without the test that the id is stored
deletePassage_NoExistenceCheck(caller, id) ==
  LET call == [Call("deletePassage", caller) EXCEPT !.id = id]
  IN  /\ Step
      /\ now' = now
      /\ IF ~hasPermission(userRoles, caller, "admin")
         THEN /\ last' = Trap(call,
                              "Unauthorized: Only admins can delete passages")
              /\ UNCHANGED <<stores, history>>
         ELSE /\ passages' = Remove(passages, id)
              /\ last' = call
              /\ UNCHANGED <<userProfiles, mobileToUser, testResults,
                             userRoles, history>>

deletePassage(caller, id) ==
  LET call == [Call("deletePassage", caller) EXCEPT !.id = id]
  IN  /\ Step
      /\ now' = now
      /\ IF ~hasPermission(userRoles, caller, "admin")
         THEN /\ last' = Trap(call,
                              "Unauthorized: Only admins can delete passages")
              /\ UNCHANGED <<stores, history>>
         ELSE IF id \notin DOMAIN passages
         THEN /\ last' = Trap(call, "Passage does not exist")
              /\ UNCHANGED <<stores, history>>
         ELSE /\ passages' = Remove(passages, id)
              /\ last' = call
              /\ UNCHANGED <<userProfiles, mobileToUser, testResults,
                             userRoles, history>>

(* ------------------------------- results ------------------------------- *)

\* r1 goes before r2 in testResults.values().toArray().sort(compareByTime):
\* by timestamp, and in key order (the order of values()) among equal ones
ResultBefore(r1, r2) ==
  \/ r1.timestamp < r2.timestamp
  \/ r1.timestamp = r2.timestamp /\ TextLess(r1.id, r2.id)

\* testResults.values().toArray() without the sort: the results in key order
RECURSIVE SortedByTime_KeyOrder(_)
SortedByTime_KeyOrder(m) ==
  IF DOMAIN m = {} THEN <<>>
  ELSE LET least == CHOOSE k \in DOMAIN m :
                      \A j \in DOMAIN m : j = k \/ TextLess(k, j)
       IN  <<m[least]>> \o SortedByTime_KeyOrder(Remove(m, least))

RECURSIVE SortedByTime(_)
SortedByTime(m) ==
  IF DOMAIN m = {} THEN <<>>
  ELSE LET least == CHOOSE k \in DOMAIN m :
                      \A j \in DOMAIN m : j = k \/ ResultBefore(m[k], m[j])
       IN  <<m[least]>> \o SortedByTime(Remove(m, least))

\* submitTestResult that adds the record to the passage map
submitTestResult_WrongMap(caller, userName, userMobile, passageTitle, wpm, accuracy, mistakes, t) ==
  LET call == [Call("submitTestResult", caller) EXCEPT
                 !.name = userName, !.mobile = userMobile]
      id == hashPassword(userMobile \o toText(t))
      testResult == [id |-> id, userName |-> userName,
                     userMobile |-> userMobile,
                     passageTitle |-> passageTitle, wpm |-> wpm,
                     accuracy |-> accuracy, mistakes |-> mistakes,
                     timestamp |-> t]
  IN  /\ Step
      /\ IF ~hasPermission(userRoles, caller, "user")
         THEN /\ last' = Trap(call,
                         "Unauthorized: Only users can submit test results")
              /\ NoClock(t)
              /\ UNCHANGED <<stores, history>>
         ELSE /\ Clock(t)
              /\ passages' = Put(passages, id, testResult)
              /\ submittedAt' = Put(submittedAt, id, calls')
              /\ last' = [call EXCEPT !.id = id]
              /\ UNCHANGED <<userProfiles, mobileToUser, testResults,
                             userRoles, issued, stale, regPassword,
                             regCredential>>

submitTestResult(caller, userName, userMobile, passageTitle, wpm, accuracy, mistakes, t) ==
  LET call == [Call("submitTestResult", caller) EXCEPT
                 !.name = userName, !.mobile = userMobile]
      id == hashPassword(userMobile \o toText(t))
      testResult == [id |-> id, userName |-> userName,
                     userMobile |-> userMobile,
                     passageTitle |-> passageTitle, wpm |-> wpm,
                     accuracy |-> accuracy, mistakes |-> mistakes,
                     timestamp |-> t]
  IN  /\ Step
      /\ IF ~hasPermission(userRoles, caller, "user")
         THEN /\ last' = Trap(call,
                         "Unauthorized: Only users can submit test results")
              /\ NoClock(t)
              /\ UNCHANGED <<stores, history>>
         ELSE /\ Clock(t)
              /\ testResults' = Put(testResults, id, testResult)
              /\ submittedAt' = Put(submittedAt, id, calls')
              /\ last' = [call EXCEPT !.id = id]
              /\ UNCHANGED <<userProfiles, mobileToUser, passages,
                             userRoles, issued, stale, regPassword,
                             regCredential>>

getTestResults(caller) ==
  LET call == Call("getTestResults", caller)
  IN  /\ Step
      /\ now' = now
      /\ IF ~hasPermission(userRoles, caller, "user")
         THEN last' = Trap(call,
                           "Unauthorized: Only users can view test results")
         ELSE last' = [call EXCEPT !.list = SortedByTime(testResults)]
      /\ UNCHANGED <<stores, history>>

(* ------------------------------ bootstrap ------------------------------ *)

\* the three sample passages of seedData: (title, content, minutes)
passagesToAdd ==
  << <<TitleNature, ContentNature, 10>>,
     <<TitleTechnology, ContentTechnology, 10>>,
     <<TitleHistory, ContentHistory, 10>> >>

\* the forEach of seedData with ids derived from the time alone
RECURSIVE SeedFrom_TimeOnlyId(_, _, _)
SeedFrom_TimeOnlyId(store, i, t) ==
  IF i > Len(passagesToAdd) THEN store
  ELSE LET title == passagesToAdd[i][1]
           id == hashPassword(toText(t))
           passage == [id |-> id, title |-> title,
                       content |-> passagesToAdd[i][2],
                       timeMinutes |-> passagesToAdd[i][3]]
       IN  SeedFrom_TimeOnlyId(Put(store, id, passage), i + 1, t)

\* pIt.forEach of seedData: the store after adding entries i.. of the list
RECURSIVE SeedFrom(_, _, _)
SeedFrom(store, i, t) ==
  IF i > Len(passagesToAdd) THEN store
  ELSE LET title == passagesToAdd[i][1]
           id == hashPassword(title \o toText(t))
           passage == [id |-> id, title |-> title,
                       content |-> passagesToAdd[i][2],
                       timeMinutes |-> passagesToAdd[i][3]]
       IN  SeedFrom(Put(store, id, passage), i + 1, t)

\* seedData without the test that the passage store is empty
seedData_AlwaysSeeds(caller, t) ==
  LET call == Call("seedData", caller)
  IN  /\ Step
      /\ IF ~hasPermission(userRoles, caller, "admin")
         THEN /\ last' = Trap(call, "Unauthorized: Only admins can seed data")
              /\ NoClock(t)
              /\ UNCHANGED <<stores, history>>
         ELSE /\ Clock(t)
              /\ passages' = SeedFrom(passages, 1, t)
              /\ last' = call
              /\ UNCHANGED <<userProfiles, mobileToUser, testResults,
                             userRoles, history>>

seedData(caller, t) ==
  LET call == Call("seedData", caller)
  IN  /\ Step
      /\ IF ~hasPermission(userRoles, caller, "admin")
         THEN /\ last' = Trap(call, "Unauthorized: Only admins can seed data")
              /\ NoClock(t)
              /\ UNCHANGED <<stores, history>>
         ELSE IF Cardinality(DOMAIN passages) > 0
         THEN /\ last' = call
              /\ NoClock(t)
              /\ UNCHANGED <<stores, history>>
         ELSE /\ Clock(t)
              /\ passages' = SeedFrom(passages, 1, t)
              /\ last' = call
              /\ UNCHANGED <<userProfiles, mobileToUser, testResults,
                             userRoles, history>>

\* addAdmin without the test that the admin mobile is already indexed
addAdmin_NoRegisteredCheck(caller) ==
  LET call == Call("addAdmin", caller)
      adminProfile == [name |-> "admin", mobile |-> adminMobile,
                       passwordHash |-> hashPassword(adminPassword),
                       sessionId |-> <<>>]
  IN  /\ Step
      /\ now' = now
      /\ IF ~hasPermission(userRoles, caller, "admin")
         THEN /\ last' = Trap(call,
                              "Unauthorized: Only admins can add other admins")
              /\ UNCHANGED <<stores, history>>
         ELSE /\ userProfiles' = Put(userProfiles, caller, adminProfile)
              /\ mobileToUser' = Put(mobileToUser, adminMobile, caller)
              /\ userRoles' = assignRole(userRoles, caller, caller, "admin")
              /\ regPassword' = Put(regPassword, adminMobile, adminPassword)
              /\ regCredential' = Put(regCredential, adminMobile,
                                      userProfiles'[caller].passwordHash)
              /\ last' = call
              /\ UNCHANGED <<passages, testResults, issued, stale, submittedAt>>

addAdmin(caller) ==
  LET call == Call("addAdmin", caller)
      adminProfile == [name |-> "admin", mobile |-> adminMobile,
                       passwordHash |-> hashPassword(adminPassword),
                       sessionId |-> <<>>]
  IN  /\ Step
      /\ now' = now
      /\ IF ~hasPermission(userRoles, caller, "admin")
         THEN /\ last' = Trap(call,
                              "Unauthorized: Only admins can add other admins")
              /\ UNCHANGED <<stores, history>>
         ELSE IF adminMobile \in DOMAIN mobileToUser
         THEN /\ last' = call
              /\ UNCHANGED <<stores, history>>
         ELSE /\ userProfiles' = Put(userProfiles, caller, adminProfile)
              /\ mobileToUser' = Put(mobileToUser, adminMobile, caller)
              /\ userRoles' = assignRole(userRoles, caller, caller, "admin")
              /\ regPassword' = Put(regPassword, adminMobile, adminPassword)
              /\ regCredential' = Put(regCredential, adminMobile,
                                      userProfiles'[caller].passwordHash)
              /\ last' = call
              /\ UNCHANGED <<passages, testResults, issued, stale, submittedAt>>

(* ----------------------- authorization mixin --------------------------- *)

\* no identity holds the admin role yet
NoAdminYet(roles) == \A p \in DOMAIN roles : roles[p] # "admin"

assignCallerUserRole(caller, user, role) ==
  LET call == [Call("assignCallerUserRole", caller) EXCEPT
                 !.user = user, !.role = role]
  IN  /\ Step
      /\ now' = now
      /\ IF \/ isAdmin(userRoles, caller)
            \/ NoAdminYet(userRoles) /\ user = caller /\ role = "admin"
         THEN /\ userRoles' = assignRole(userRoles, caller, user, role)
              /\ last' = call
              /\ UNCHANGED <<userProfiles, mobileToUser, passages,
                             testResults, history>>
         ELSE /\ last' = Trap(call,
                         "Unauthorized: Only admins can assign user roles")
              /\ UNCHANGED <<stores, history>>

isCallerAdmin(caller) ==
  /\ Step
  /\ now' = now
  /\ last' = [Call("isCallerAdmin", caller) EXCEPT
                !.flag = isAdmin(userRoles, caller)]
  /\ UNCHANGED <<stores, history>>

(* ------------------------------- system -------------------------------- *)

\* session ids a client can present: none, or one some login returned
KnownSessionIds == {<<>>} \cup {pr[2] : pr \in issued}

\* passage ids a client can name: the stored ones and one that is not stored
KnownPassageIds == (DOMAIN passages) \cup {<<33>>}

Next ==
  \E caller \in Principals :
    \/ \E r \in Registrations, password \in Passwords :
         registerUser(caller, r[1], r[2], password)
    \/ \E mobile \in Mobiles, password \in LoginPasswords, t \in Times :
         login(caller, mobile, password, t)
    \/ \E mobile \in Mobiles, sessionId \in KnownSessionIds :
         checkSessionValid(caller, mobile, sessionId)
    \/ \E mobile \in Mobiles : logout(caller, mobile)
    \/ getCallerUserProfile(caller)
    \/ \E user \in Principals : getUserProfile(caller, user)
    \/ \E profile \in SavedProfiles : saveCallerUserProfile(caller, profile)
    \/ getPassages(caller)
    \/ \E p \in PassageInputs, t \in Times :
         addPassage(caller, p[1], p[2], p[3], t)
    \/ \E id \in KnownPassageIds, p \in PassageInputs :
         updatePassage(caller, id, p[1], p[2], p[3])
    \/ \E id \in KnownPassageIds : deletePassage(caller, id)
    \/ \E r \in ResultInputs, t \in Times :
         submitTestResult(caller, r[1], r[2], r[3], r[4], r[5], r[6], t)
    \/ getTestResults(caller)
    \/ \E t \in Times : seedData(caller, t)
    \/ addAdmin(caller)
    \/ \E user \in Principals, role \in Roles :
         assignCallerUserRole(caller, user, role)
    \/ isCallerAdmin(caller)

Spec == Init /\ [][Next]_vars

(* ------------------------------ outcomes ------------------------------- *)

DuplicateMobile == "Mobile number already registered"

NoSuchUser == "User does not exist"

InvalidCredential == "Invalid password"

Unauthorized ==
  {"Unauthorized: Only users can view profiles",
   "Unauthorized: Can only view your own profile",
   "Unauthorized: Only users can save profiles",
   "Unauthorized: Can only logout yourself",
   "Unauthorized: Only users can view passages",
   "Unauthorized: Only admins can add passages",
   "Unauthorized: Only admins can update passages",
   "Unauthorized: Only admins can delete passages",
   "Unauthorized: Only users can submit test results",
   "Unauthorized: Only users can view test results",
   "Unauthorized: Only admins can seed data",
   "Unauthorized: Only admins can add other admins",
   "Unauthorized: Only admins can assign user roles"}

NotFound == "Passage does not exist"

\* the role assignment of p in roles is exactly admin
HoldsAdmin(roles, p) == p \in DOMAIN roles /\ roles[p] = "admin"

\* the role assignment of p in roles is user or admin
HoldsUser(roles, p) == p \in DOMAIN roles /\ roles[p] \in {"user", "admin"}

AdminOps == {"addPassage", "updatePassage", "deletePassage", "seedData",
             "addAdmin"}

UserOps == {"getPassages", "getTestResults", "submitTestResult",
            "getCallerUserProfile", "saveCallerUserProfile"}

(* ------------------------------- claims -------------------------------- *)

\* C1: registerUser with a mobile that is already indexed fails with
\* DuplicateMobile and leaves profiles, mobile index and roles unchanged;
\* with a mobile that is not indexed it succeeds and indexes the mobile to
\* the caller; an indexed mobile never changes the identity it maps to.
C1_DuplicateMobileRejected ==
  [][ /\ (last'.op = "registerUser" /\ last'.mobile \in DOMAIN mobileToUser)
           => /\ last'.status = "trap"
              /\ last'.msg = DuplicateMobile
              /\ UNCHANGED <<userProfiles, mobileToUser, userRoles>>
      /\ (last'.op = "registerUser" /\ last'.mobile \notin DOMAIN mobileToUser)
           => /\ last'.status = "ok"
              /\ last'.mobile \in DOMAIN mobileToUser'
              /\ mobileToUser'[last'.mobile] = last'.caller
      /\ \A m \in DOMAIN mobileToUser :
           /\ m \in DOMAIN mobileToUser'
           /\ mobileToUser'[m] = mobileToUser[m] ]_vars

\* a second registration of a mobile, by another identity, was rejected
C1_Witness ==
  /\ last.op = "registerUser"
  /\ last.status = "trap"
  /\ last.msg = DuplicateMobile
  /\ last.mobile \in DOMAIN mobileToUser
  /\ mobileToUser[last.mobile] # last.caller

\* C2: a token returned by a login that was followed by a later successful
\* login on the same account is never accepted by checkSessionValid again.
C2_StaleTokenRejected ==
  \A pr \in stale : ~SessionValid(userProfiles, mobileToUser, pr[1], pr[2])

\* C3: a login with the mobile and the password given at registration
\* succeeds, returns a non-empty token with the account's name and mobile,
\* and stores the token so that checkSessionValid accepts it.
C3_RegisteredLoginSucceeds ==
  (/\ last.op = "login"
   /\ last.mobile \in DOMAIN regPassword
   /\ last.password = regPassword[last.mobile])
    => /\ last.status = "ok"
       /\ last.sessionId # <<>>
       /\ last.retMobile = last.mobile
       /\ last.name = userProfiles[mobileToUser[last.mobile]].name
       /\ userProfiles[mobileToUser[last.mobile]].sessionId = last.sessionId
       /\ SessionValid(userProfiles, mobileToUser, last.mobile, last.sessionId)

\* C4: after a successful logout the session field of the account's profile
\* is empty and the session token that was valid just before is rejected.
C4_LogoutInvalidates ==
  [][ (last'.op = "logout" /\ last'.status = "ok")
        => LET m == last'.mobile
               T == userProfiles[mobileToUser[m]].sessionId
           IN  /\ userProfiles'[mobileToUser'[m]].sessionId = <<>>
               /\ (T # <<>> /\ SessionValid(userProfiles, mobileToUser, m, T))
                    => ~SessionValid(userProfiles', mobileToUser', m, T) ]_vars

\* a logout succeeded on an account that a login had given a token, and
\* that token is rejected
C4_Witness ==
  /\ last.op = "logout"
  /\ last.status = "ok"
  /\ \E pr \in issued :
       /\ pr[1] = last.mobile
       /\ ~SessionValid(userProfiles, mobileToUser, pr[1], pr[2])

\* C5: a login fails with NoSuchUser exactly for a mobile that is not
\* indexed, and with InvalidCredential for a password whose hash differs
\* from the stored credential; a failed login changes no store, so every
\* token accepted before it is accepted after it.
C5_FailedLoginChangesNothing ==
  [][ last'.op = "login"
        => /\ (last'.mobile \notin DOMAIN mobileToUser)
                => (last'.status = "trap" /\ last'.msg = NoSuchUser)
           /\ (/\ last'.mobile \in DOMAIN mobileToUser
               /\ userProfiles[mobileToUser[last'.mobile]].passwordHash
                    # hashPassword(last'.password))
                => (last'.status = "trap" /\ last'.msg = InvalidCredential)
           /\ (last'.status = "trap")
                => /\ UNCHANGED stores
                   /\ \A pr \in issued :
                        SessionValid(userProfiles, mobileToUser, pr[1], pr[2])
                          => SessionValid(userProfiles', mobileToUser',
                                          pr[1], pr[2]) ]_vars

\* a login was rejected for its password while a token issued earlier on
\* that account is still accepted
C5_Witness ==
  /\ last.op = "login"
  /\ last.status = "trap"
  /\ last.msg = InvalidCredential
  /\ \E pr \in issued :
       /\ pr[1] = last.mobile
       /\ SessionValid(userProfiles, mobileToUser, pr[1], pr[2])

\* C6: logout of a registered mobile by a caller that is neither the
\* identity the mobile maps to nor an admin fails with Unauthorized and
\* changes no store; a non-empty session is emptied only by a call of the
\* profile's identity or of an admin.
C6_LogoutOwnerOrAdmin ==
  [][ /\ (/\ last'.op = "logout"
          /\ last'.mobile \in DOMAIN mobileToUser
          /\ last'.caller # mobileToUser[last'.mobile]
          /\ ~HoldsAdmin(userRoles, last'.caller))
           => /\ last'.status = "trap"
              /\ last'.msg \in Unauthorized
              /\ UNCHANGED stores
      /\ \A p \in DOMAIN userProfiles :
           (/\ userProfiles[p].sessionId # <<>>
            /\ userProfiles'[p].sessionId = <<>>)
             => (last'.caller = p \/ HoldsAdmin(userRoles, last'.caller)) ]_vars

\* a logout by a stranger was rejected and the victim's token is still valid
C6_Witness ==
  /\ last.op = "logout"
  /\ last.status = "trap"
  /\ last.msg \in Unauthorized
  /\ \E pr \in issued :
       /\ pr[1] = last.mobile
       /\ SessionValid(userProfiles, mobileToUser, pr[1], pr[2])

\* C7: addPassage, updatePassage, deletePassage, seedData and addAdmin by a
\* caller without the admin role fail with Unauthorized and leave passages,
\* profiles, mobile index and roles unchanged; the passage store changes
\* only in calls of a caller that holds the admin role.
C7_AdminGate ==
  [][ /\ (last'.op \in AdminOps /\ ~HoldsAdmin(userRoles, last'.caller))
           => /\ last'.status = "trap"
              /\ last'.msg \in Unauthorized
              /\ UNCHANGED <<passages, userProfiles, mobileToUser, userRoles>>
      /\ (passages' # passages) => HoldsAdmin(userRoles, last'.caller) ]_vars

\* a caller without the admin role was refused the deletion of a stored
\* passage, which is still stored
C7_Witness ==
  /\ last.op = "deletePassage"
  /\ last.status = "trap"
  /\ last.msg \in Unauthorized
  /\ last.id \in DOMAIN passages
  /\ ~HoldsAdmin(userRoles, last.caller)

\* C8: getPassages, getTestResults, submitTestResult, getCallerUserProfile
\* and saveCallerUserProfile fail with Unauthorized and change no store for
\* a caller that holds neither the user nor the admin role, and succeed for
\* a caller that holds one of them.
C8_UserGate ==
  [][ last'.op \in UserOps
        => IF HoldsUser(userRoles, last'.caller)
           THEN last'.status = "ok"
           ELSE /\ last'.status = "trap"
                /\ last'.msg \in Unauthorized
                /\ UNCHANGED stores ]_vars

\* an identity without a role assignment was refused saveCallerUserProfile
\* while another identity has a profile
C8_Witness ==
  /\ last.op = "saveCallerUserProfile"
  /\ last.status = "trap"
  /\ last.msg \in Unauthorized
  /\ last.caller \notin DOMAIN userRoles
  /\ userProfiles # EmptyMap

\* C9: hasPermission(identity, admin) and isAdmin(identity) hold iff the
\* assignment is exactly admin, hasPermission(identity, user) iff it is user
\* or admin, and an unassigned identity is guest and satisfies neither.
C9_PermissionTable ==
  \A p \in Principals :
    /\ hasPermission(userRoles, p, "admin") <=> HoldsAdmin(userRoles, p)
    /\ isAdmin(userRoles, p) <=> HoldsAdmin(userRoles, p)
    /\ hasPermission(userRoles, p, "user") <=> HoldsUser(userRoles, p)
    /\ (p \notin DOMAIN userRoles)
         => /\ getUserRole(userRoles, p) = "guest"
            /\ ~hasPermission(userRoles, p, "admin")
            /\ ~hasPermission(userRoles, p, "user")

\* one identity is assigned admin and another is assigned user
C9_Witness ==
  \E p, q \in Principals :
    /\ HoldsAdmin(userRoles, p)
    /\ q \in DOMAIN userRoles
    /\ userRoles[q] = "user"

\* C10: right after a successful registerUser the caller's profile holds
\* the given name and mobile, the hashed password and an empty session, the
\* mobile is indexed to the caller, and the caller has the user capability
\* but not admin; an identity gains the admin capability only in a call that
\* assigns the admin role to it.
C10_FreshUser ==
  [][ /\ (last'.op = "registerUser" /\ last'.status = "ok")
           => LET c == last'.caller
              IN  /\ c \in DOMAIN userProfiles'
                  /\ userProfiles'[c] =
                       [name |-> last'.name, mobile |-> last'.mobile,
                        passwordHash |-> hashPassword(last'.password),
                        sessionId |-> <<>>]
                  /\ last'.mobile \in DOMAIN mobileToUser'
                  /\ mobileToUser'[last'.mobile] = c
                  /\ hasPermission(userRoles', c, "user")
                  /\ ~hasPermission(userRoles', c, "admin")
      /\ \A p \in Principals :
           (~hasPermission(userRoles, p, "admin")
              /\ hasPermission(userRoles', p, "admin"))
             => /\ last'.op = "assignCallerUserRole"
                /\ last'.user = p
                /\ last'.role = "admin" ]_vars

\* a registration succeeded while another identity holds the admin role
C10_Witness ==
  /\ last.op = "registerUser"
  /\ last.status = "ok"
  /\ last.caller \in DOMAIN userProfiles
  /\ \E p \in Principals : p # last.caller /\ HoldsAdmin(userRoles, p)

\* C11: no two stored profiles have the same mobile value.
C11_ProfileMobilesUnique ==
  \A p, q \in DOMAIN userProfiles :
    (p # q) => (userProfiles[p].mobile # userProfiles[q].mobile)

\* C12: every indexed mobile m maps to an identity whose profile has the
\* mobile field m, and no identity is indexed under two different mobiles.
C12_IndexAgreesWithProfiles ==
  /\ \A m \in DOMAIN mobileToUser :
       /\ mobileToUser[m] \in DOMAIN userProfiles
       /\ userProfiles[mobileToUser[m]].mobile = m
  /\ \A m1, m2 \in DOMAIN mobileToUser :
       (m1 # m2) => (mobileToUser[m1] # mobileToUser[m2])

\* C13: checkSessionValid succeeds for every caller, changes no store,
\* returns false when the mobile is not indexed or the indexed identity has
\* no profile, and otherwise returns whether the given session id equals
\* the stored session field.
C13_CheckSessionPure ==
  [][ last'.op = "checkSessionValid"
        => /\ last'.status = "ok"
           /\ UNCHANGED <<stores, history>>
           /\ IF last'.mobile \notin DOMAIN mobileToUser
              THEN last'.flag = FALSE
              ELSE IF mobileToUser[last'.mobile] \notin DOMAIN userProfiles
              THEN last'.flag = FALSE
              ELSE last'.flag =
                     (userProfiles[mobileToUser[last'.mobile]].sessionId
                        = last'.sessionId) ]_vars

\* an identity without a role assignment asked about a token a login had
\* returned and got true
C13_Witness ==
  /\ last.op = "checkSessionValid"
  /\ last.caller \notin DOMAIN userRoles
  /\ last.sessionId # <<>>
  /\ last.flag = TRUE

\* C14: for an account whose session field is empty (registered and not
\* logged in) checkSessionValid returns false for every session id, the
\* empty one included.
C14_LoggedOutRejectsAll ==
  (/\ last.op = "checkSessionValid"
   /\ last.mobile \in DOMAIN mobileToUser
   /\ userProfiles[mobileToUser[last.mobile]].sessionId = <<>>)
    => last.flag = FALSE

\* C15: a call by a caller that lacks the capability the operation
\* requires fails with Unauthorized whatever its other arguments are: the
\* admin operations for a non-admin (also on a missing passage id), the
\* user operations for a caller without a role, and logout for a non-admin
\* that is not the owner of the mobile (also when the mobile is not
\* registered).
C15_CapabilityCheckedFirst ==
  [][ /\ (last'.op \in AdminOps /\ ~HoldsAdmin(userRoles, last'.caller))
           => (last'.status = "trap" /\ last'.msg \in Unauthorized)
      /\ (last'.op \in UserOps /\ ~HoldsUser(userRoles, last'.caller))
           => (last'.status = "trap" /\ last'.msg \in Unauthorized)
      /\ (/\ last'.op = "logout"
          /\ ~HoldsAdmin(userRoles, last'.caller)
          /\ \/ last'.mobile \notin DOMAIN mobileToUser
             \/ mobileToUser[last'.mobile] # last'.caller)
           => (last'.status = "trap" /\ last'.msg \in Unauthorized) ]_vars

\* C16: getPassages returns the passages of the store at the time of the
\* call, each exactly once, in strictly ascending order of id.
C16_PassagesSortedById ==
  [][ (last'.op = "getPassages" /\ last'.status = "ok")
        => LET l == last'.list
           IN  /\ Len(l) = Cardinality(DOMAIN passages)
               /\ {l[i] : i \in 1..Len(l)} = {passages[k] : k \in DOMAIN passages}
               /\ \A i, j \in 1..Len(l) :
                    (i < j) => TextLess(l[i].id, l[j].id) ]_vars

\* getPassages returned more than one passage
C16_Witness ==
  /\ last.op = "getPassages"
  /\ last.status = "ok"
  /\ Len(last.list) > 1

\* C17: submitTestResult leaves passages, profiles, mobile index and roles
\* unchanged; addPassage, updatePassage, deletePassage and seedData leave
\* results, profiles, mobile index and roles unchanged.
C17_StoresSeparate ==
  [][ /\ (last'.op = "submitTestResult")
           => UNCHANGED <<passages, userProfiles, mobileToUser, userRoles>>
      /\ (last'.op \in {"addPassage", "updatePassage", "deletePassage",
                        "seedData"})
           => UNCHANGED <<testResults, userProfiles, mobileToUser,
                          userRoles>> ]_vars

\* a result was submitted while passages are stored
C17_Witness ==
  /\ last.op = "submitTestResult"
  /\ last.status = "ok"
  /\ last.id \in DOMAIN testResults
  /\ passages # EmptyMap

\* C18: every successful addPassage makes the number of stored passages
\* grow by exactly one, overwrites no stored passage, and returns the key
\* of a passage holding the given title, content and minutes.
C18_AddPassageInsertsNew ==
  [][ (last'.op = "addPassage" /\ last'.status = "ok")
        => /\ Cardinality(DOMAIN passages')
                = Cardinality(DOMAIN passages) + 1
           /\ \A k \in DOMAIN passages :
                k \in DOMAIN passages' /\ passages'[k] = passages[k]
           /\ last'.id \in DOMAIN passages'
           /\ <<passages'[last'.id].title, passages'[last'.id].content,
                passages'[last'.id].timeMinutes>> = last'.list ]_vars

\* C19: every stored passage's id field equals the key it is stored under,
\* and a successful updatePassage sets the title, content and minutes of
\* the passage with the given id and changes neither its id nor any other
\* passage nor the set of stored ids.
C19_PassageIdImmutable ==
  [][ /\ \A k \in DOMAIN passages' : passages'[k].id = k
      /\ (last'.op = "updatePassage" /\ last'.status = "ok")
           => /\ DOMAIN passages' = DOMAIN passages
              /\ passages'[last'.id].id = passages[last'.id].id
              /\ <<passages'[last'.id].title, passages'[last'.id].content,
                   passages'[last'.id].timeMinutes>> = last'.list
              /\ \A k \in DOMAIN passages :
                   (k # last'.id) => (passages'[k] = passages[k]) ]_vars

\* a passage was updated while other passages are stored
C19_Witness ==
  /\ last.op = "updatePassage"
  /\ last.status = "ok"
  /\ last.id \in DOMAIN passages
  /\ Cardinality(DOMAIN passages) > 1

\* C20: updatePassage and deletePassage by an admin on an id that is not
\* stored fail with NotFound and leave the passage store unchanged;
\* deletePassage by an admin on a stored id removes that passage and leaves
\* every other passage unchanged.
C20_MissingIdNotFound ==
  [][ /\ (/\ last'.op \in {"updatePassage", "deletePassage"}
          /\ HoldsAdmin(userRoles, last'.caller)
          /\ last'.id \notin DOMAIN passages)
           => /\ last'.status = "trap"
              /\ last'.msg = NotFound
              /\ passages' = passages
      /\ (/\ last'.op = "deletePassage"
          /\ HoldsAdmin(userRoles, last'.caller)
          /\ last'.id \in DOMAIN passages)
           => /\ last'.status = "ok"
              /\ DOMAIN passages' = (DOMAIN passages) \ {last'.id}
              /\ \A k \in DOMAIN passages' : passages'[k] = passages[k] ]_vars

\* a stored passage was deleted and other passages are still stored
C20_Witness ==
  /\ last.op = "deletePassage"
  /\ last.status = "ok"
  /\ last.id \notin DOMAIN passages
  /\ passages # EmptyMap

\* C21: updatePassage and deletePassage by an admin on an id that is not
\* stored end without aborting: the missing id is reported by the value the
\* call returns.
C21_MissingIdReturned ==
  [][ (/\ last'.op \in {"updatePassage", "deletePassage"}
       /\ HoldsAdmin(userRoles, last'.caller)
       /\ last'.id \notin DOMAIN passages)
        => last'.status # "trap" ]_vars

\* C22: every successful submitTestResult adds exactly one result to the
\* stored results, and no step changes or removes a result that is stored.
C22_LedgerAppendOnly ==
  [][ /\ (last'.op = "submitTestResult" /\ last'.status = "ok")
           => Cardinality(DOMAIN testResults') =
                Cardinality(DOMAIN testResults) + 1
      /\ \A k \in DOMAIN testResults :
           k \in DOMAIN testResults' /\ testResults'[k] = testResults[k] ]_vars

\* C23 as stated: getTestResults succeeds for exactly the callers that hold
\* the user or admin role and returns SortedByTime(testResults); that list
\* holds every stored result once, in ascending timestamp order, and a
\* result listed earlier was submitted by an earlier call.
C23_ListInCallOrder ==
  LET l == SortedByTime(testResults)
  IN  /\ (last.op = "getTestResults")
           => /\ (last.status = "ok") <=> HoldsUser(userRoles, last.caller)
              /\ (last.status = "ok") => (last.list = l)
      /\ Len(l) = Cardinality(DOMAIN testResults)
      /\ {l[i] : i \in DOMAIN l} = {testResults[k] : k \in DOMAIN testResults}
      /\ \A i, j \in DOMAIN l :
           (i < j) => /\ l[i].timestamp <= l[j].timestamp
                      /\ submittedAt[l[i].id] < submittedAt[l[j].id]

\* C23 amended: getTestResults succeeds for exactly the callers that hold
\* the user or admin role and returns SortedByTime(testResults); that list
\* holds every stored result once, in ascending timestamp order; results
\* with different timestamps are listed in the order of their
\* submitTestResult calls, and results with the same timestamp in the order
\* of their ids.
C23_ListByTimestamp ==
  LET l == SortedByTime(testResults)
  IN  /\ (last.op = "getTestResults")
           => /\ (last.status = "ok") <=> HoldsUser(userRoles, last.caller)
              /\ (last.status = "ok") => (last.list = l)
      /\ Len(l) = Cardinality(DOMAIN testResults)
      /\ {l[i] : i \in DOMAIN l} = {testResults[k] : k \in DOMAIN testResults}
      /\ \A i, j \in DOMAIN l :
           (i < j) => /\ l[i].timestamp <= l[j].timestamp
                      /\ (l[i].timestamp # l[j].timestamp)
                           => submittedAt[l[i].id] < submittedAt[l[j].id]
                      /\ (l[i].timestamp = l[j].timestamp)
                           => TextLess(l[i].id, l[j].id)

\* two results submitted at different times are stored, the later one under
\* the smaller id
C23_Witness ==
  \E k1, k2 \in DOMAIN testResults :
    /\ testResults[k1].timestamp < testResults[k2].timestamp
    /\ TextLess(k2, k1)
    /\ submittedAt[k1] < submittedAt[k2]

\* the titles of the sample passages
SeedTitles == {TitleNature, TitleTechnology, TitleHistory}

\* C24: seedData by an admin succeeds and leaves a passage store that is not
\* empty, and seedData by an admin on a passage store that is not empty
\* changes no store: a second seedData in a row changes nothing.
C24_SeedIdempotent ==
  [][ (last'.op = "seedData" /\ HoldsAdmin(userRoles, last'.caller))
        => /\ last'.status = "ok"
           /\ passages' # EmptyMap
           /\ (passages # EmptyMap) => UNCHANGED <<stores, now>> ]_vars

\* seedData succeeded on a store holding a passage that is not a sample
C24_Witness ==
  /\ last.op = "seedData"
  /\ last.status = "ok"
  /\ passages # EmptyMap
  /\ \A k \in DOMAIN passages : passages[k].title \notin SeedTitles

\* C25: seedData by an admin on an empty passage store leaves exactly three
\* passages, one for each sample title and each of 10 minutes, every one
\* stored under its own id, which is derived from its title and the one
\* time of the call.
C25_SeedsThreePassages ==
  [][ (/\ last'.op = "seedData"
       /\ HoldsAdmin(userRoles, last'.caller)
       /\ passages = EmptyMap)
        => /\ last'.status = "ok"
           /\ Cardinality(DOMAIN passages') = 3
           /\ {<<passages'[k].title, passages'[k].timeMinutes>> :
                 k \in DOMAIN passages'} = SeedTitles \X {10}
           /\ \A k \in DOMAIN passages' :
                /\ passages'[k].id = k
                /\ k = hashPassword(passages'[k].title \o toText(now')) ]_vars

\* seedData filled the empty store: the three samples are stored
C25_Witness ==
  /\ last.op = "seedData"
  /\ last.status = "ok"
  /\ Cardinality(DOMAIN passages) = 3
  /\ {passages[k].title : k \in DOMAIN passages} = SeedTitles

\* C26: addAdmin by an admin succeeds; when the admin mobile is not indexed
\* it stores a profile with that mobile under the caller, leaves every other
\* profile as it was, indexes the mobile to the caller and leaves the caller
\* admin; when the mobile is indexed it changes no store; in both cases the
\* mobile is afterwards indexed to one identity, which a repeated addAdmin
\* never replaces.
C26_AddAdminIdempotent ==
  [][ (last'.op = "addAdmin" /\ HoldsAdmin(userRoles, last'.caller))
        => /\ last'.status = "ok"
           /\ adminMobile \in DOMAIN mobileToUser'
           /\ IF adminMobile \in DOMAIN mobileToUser
              THEN UNCHANGED stores
              ELSE /\ DOMAIN userProfiles' =
                        (DOMAIN userProfiles) \cup {last'.caller}
                   /\ userProfiles'[last'.caller].mobile = adminMobile
                   /\ userProfiles'[last'.caller].sessionId = <<>>
                   /\ \A p \in DOMAIN userProfiles :
                        (p # last'.caller)
                          => (userProfiles'[p] = userProfiles[p])
                   /\ mobileToUser' = Put(mobileToUser, adminMobile,
                                          last'.caller)
                   /\ HoldsAdmin(userRoles', last'.caller)
                   /\ UNCHANGED <<passages, testResults>> ]_vars

\* addAdmin succeeded while the admin mobile is indexed to another identity
C26_Witness ==
  /\ last.op = "addAdmin"
  /\ last.status = "ok"
  /\ adminMobile \in DOMAIN mobileToUser
  /\ mobileToUser[adminMobile] # last.caller

\* C27: getUserProfile by the target identity itself or by an admin succeeds
\* and returns the target's stored profile, or nothing when none is stored;
\* by any other caller it fails with Unauthorized and returns no profile; it
\* changes no store.
C27_ProfileSelfOrAdmin ==
  [][ (last'.op = "getUserProfile")
        => /\ IF \/ last'.caller = last'.user
                 \/ HoldsAdmin(userRoles, last'.caller)
              THEN /\ last'.status = "ok"
                   /\ last'.list = IF last'.user \in DOMAIN userProfiles
                                   THEN <<userProfiles[last'.user]>>
                                   ELSE <<>>
              ELSE /\ last'.status = "trap"
                   /\ last'.msg \in Unauthorized
                   /\ last'.list = <<>>
           /\ UNCHANGED stores ]_vars

\* another identity that is not admin asked for the profile of an identity
\* that is logged in, and was refused
C27_Witness ==
  /\ last.op = "getUserProfile"
  /\ last.status = "trap"
  /\ last.user \in DOMAIN userProfiles
  /\ userProfiles[last.user].sessionId # <<>>

\* C28: two accounts registered with the same password were given the same
\* credential at registration, whatever their names, their mobiles, their
\* identities and the times of their registration, and the credential stored by the latest
\* successful registerUser is the one recorded for its mobile.
C28_CredentialUnsalted ==
  /\ \A m1, m2 \in DOMAIN regCredential :
       (regPassword[m1] = regPassword[m2])
         => (regCredential[m1] = regCredential[m2])
  /\ (last.op = "registerUser" /\ last.status = "ok")
       => /\ regPassword[last.mobile] = last.password
          /\ userProfiles[last.caller].passwordHash = regCredential[last.mobile]

\* two mobiles were registered by different identities with the same password
C28_Witness ==
  \E m1, m2 \in DOMAIN regCredential :
    /\ m1 # m2
    /\ regPassword[m1] = regPassword[m2]
    /\ m1 \in DOMAIN mobileToUser /\ m2 \in DOMAIN mobileToUser
    /\ mobileToUser[m1] # mobileToUser[m2]
    /\ userProfiles[mobileToUser[m1]].name # userProfiles[mobileToUser[m2]].name

\* C29: no step of an operation of the actor takes a capability away: an
\* identity that satisfies hasPermission for user or for admin before the
\* step satisfies it after the step (the role assignment call of the
\* authorization mixin, which overwrites on request, is left aside).
C29_CapabilitiesNeverShrink ==
  [][ (last'.op # "assignCallerUserRole")
        => \A p \in Principals, r \in {"user", "admin"} :
             hasPermission(userRoles, p, r)
               => hasPermission(userRoles', p, r) ]_vars

\* C30: whenever the admin mobile is indexed, the identity it is indexed to
\* holds the admin role.
C30_AdminMobileHeldByAdmin ==
  (adminMobile \in DOMAIN mobileToUser)
    => HoldsAdmin(userRoles, mobileToUser[adminMobile])

\* C31: every stored session token that is not empty was returned by a
\* successful login on the mobile of the profile that holds it.
C31_TokenFromLogin ==
  \A p \in DOMAIN userProfiles :
    (userProfiles[p].sessionId # <<>>)
      => <<userProfiles[p].mobile, userProfiles[p].sessionId>> \in issued

\* C32: a successful login or logout leaves the set of profiles, every
\* profile but the one the mobile is indexed to, that profile's name, mobile
\* and credential, the mobile index, the roles, the passages and the results
\* unchanged.
C32_LoginLogoutFrame ==
  [][ (last'.op \in {"login", "logout"} /\ last'.status = "ok")
        => /\ last'.mobile \in DOMAIN mobileToUser
           /\ DOMAIN userProfiles' = DOMAIN userProfiles
           /\ \A p \in DOMAIN userProfiles :
                IF p = mobileToUser[last'.mobile]
                THEN userProfiles'[p] =
                       [userProfiles[p] EXCEPT
                          !.sessionId = userProfiles'[p].sessionId]
                ELSE userProfiles'[p] = userProfiles[p]
           /\ UNCHANGED <<mobileToUser, userRoles, passages,
                          testResults>> ]_vars

\* an identity logged in on the account of another identity while two
\* profiles are stored
C32_Witness ==
  /\ last.op = "login"
  /\ last.status = "ok"
  /\ Cardinality(DOMAIN userProfiles) = 2
  /\ mobileToUser[last.mobile] # last.caller
  /\ userProfiles[mobileToUser[last.mobile]].sessionId = last.sessionId

\* C33: login on a mobile that was registered, with a password that is not
\* the one given when the mobile was registered, does not succeed: it
\* fails with InvalidCredential.
C33_OnlyRegisteredPassword ==
  [][ (/\ last'.op = "login"
       /\ last'.mobile \in DOMAIN regPassword
       /\ last'.password # regPassword[last'.mobile])
        => (last'.status = "trap" /\ last'.msg = InvalidCredential) ]_vars

\* C34: the credential recorded at a registration has the length of the
\* password and at each position the code max(33, (c + 3) mod 126) of the
\* password's code c; every character of a recorded credential, an issued
\* session token, a passage id and a result id lies within 33..125.
C34_HashRange ==
  /\ \A m \in DOMAIN regCredential :
       /\ Len(regCredential[m]) = Len(regPassword[m])
       /\ \A i \in 1..Len(regPassword[m]) :
            LET shifted == (regPassword[m][i] + 3) % 126
            IN  regCredential[m][i] = IF shifted > 33 THEN shifted ELSE 33
  /\ \A text \in {regCredential[m] : m \in DOMAIN regCredential}
                   \cup {pr[2] : pr \in issued}
                   \cup (DOMAIN passages) \cup (DOMAIN testResults) :
       \A i \in 1..Len(text) : text[i] \in 33..125

\* a password whose character wraps below 33 was registered, and a token
\* was issued
C34_Witness ==
  /\ \E m \in DOMAIN regPassword :
       \E i \in 1..Len(regPassword[m]) : (regPassword[m][i] + 3) % 126 < 33
  /\ issued # {}

(* ------------------------------- client -------------------------------- *)

\* the sessions handleLogin passes to setSession: what the backend's login
\* returns for a user and for the admin account
SessionInputs ==
  {[name |-> "Alice", mobile |-> <<57>>,
    sessionId |-> hashPassword(<<57>> \o toText(0))],
   [name |-> "admin", mobile |-> adminMobile,
    sessionId |-> hashPassword(adminMobile \o toText(0))]}

\* JSON.stringify of a SessionData: its keys and values in order
stringify(s) ==
  <<"name", s.name, "mobile", s.mobile, "sessionId", s.sessionId>>

\* JSON.parse of such a text
parse(text) == [name |-> text[2], mobile |-> text[4], sessionId |-> text[6]]

\* the initial state of AuthProvider's useState: the stored session, or null
StoredSession(store) ==
  IF store = {} THEN {} ELSE {parse(CHOOSE text \in store : TRUE)}

\* the component AppRouter returns for a session
AppRouter(sess) ==
  IF sess = {} THEN "AuthScreen"
  ELSE IF (CHOOSE s \in sess : TRUE).mobile = adminMobile THEN "AdminPanel"
  ELSE "ExamInterface"

\* Number(timeMinutes) * 60 of passage p, in the unit of the model
secs(p) == MaxSeconds + p - 1

\* the step of the client named name is taken; the backend is another
\* program
Event(name) ==
  /\ event' = name
  /\ UNCHANGED backend

\* the exam form, not the result screen, is what React has rendered
FormRendered == examResult = NoResult \/ uncommitted

\* ExamInterface starts with the state of its useState and useRef calls
MountExam ==
  /\ selectedPassage' = 0
  /\ typedText' = 0
  /\ typedTextRef' = 0
  /\ timerStarted' = FALSE
  /\ timeLeft' = 0
  /\ timer' = FALSE
  /\ submitted' = FALSE
  /\ submittedRef' = FALSE
  /\ examResult' = NoResult
  /\ uncommitted' = FALSE
  /\ sends' = 0

\* AppRouter renders for session sess: a component that was already shown
\* keeps its state, another one is mounted
Routed(sess) ==
  IF AppRouter(sess) = AppRouter(session) THEN UNCHANGED exam ELSE MountExam

\* setSession that leaves the stored session when the session is cleared
setSession_KeepsStored(s) ==
  /\ session' = s
  /\ storage' = IF s = {} THEN storage
                ELSE {stringify(CHOOSE x \in s : TRUE)}

setSession(s) ==
  /\ session' = s
  /\ storage' = IF s = {} THEN {}
                ELSE {stringify(CHOOSE x \in s : TRUE)}

\* useActor delivers the actor
actorReady ==
  /\ ~actor
  /\ actor' = TRUE
  /\ Event("actorReady")
  /\ UNCHANGED <<storage, session, awaiting, exam>>

\* handleLogin whose actor.login returns ok with the session s
handleLogin(s) ==
  /\ AppRouter(session) = "AuthScreen"
  /\ actor
  /\ setSession({s})
  /\ Routed({s})
  /\ Event("handleLogin")
  /\ UNCHANGED <<actor, awaiting>>

\* handleLogout up to its await, or to its end when it does not call the
\* backend
handleLogout ==
  /\ AppRouter(session) \in {"AdminPanel", "ExamInterface"}
  /\ Event("handleLogout")
  /\ IF actor /\ session # {}
     THEN /\ awaiting < MaxAwait
          /\ awaiting' = awaiting + 1
          /\ UNCHANGED <<storage, session, actor, exam>>
     ELSE /\ setSession({})
          /\ Routed({})
          /\ UNCHANGED <<actor, awaiting>>

\* handleLogout that clears the session only when actor.logout resolved
handleLogoutResumes_OnlyResolved(resolved) ==
  /\ awaiting > 0
  /\ awaiting' = awaiting - 1
  /\ IF resolved
     THEN setSession({}) /\ Routed({})
     ELSE UNCHANGED <<storage, session, exam>>
  /\ Event(IF resolved THEN "logoutResolved" ELSE "logoutRejected")
  /\ UNCHANGED actor

\* actor.logout settles, resolved or rejected, and handleLogout goes on
handleLogoutResumes(resolved) ==
  /\ awaiting > 0
  /\ awaiting' = awaiting - 1
  /\ setSession({})
  /\ Routed({})
  /\ Event(IF resolved THEN "logoutResolved" ELSE "logoutRejected")
  /\ UNCHANGED actor

\* window.location.reload(): the page starts again from localStorage
reload(cause) ==
  /\ session' = StoredSession(storage)
  /\ actor' = FALSE
  /\ awaiting' = 0
  /\ MountExam
  /\ Event(cause)
  /\ UNCHANGED storage

\* the polling effect: checkSessionValid returned false
sessionExpired ==
  /\ AppRouter(session) = "ExamInterface"
  /\ actor
  /\ (CHOOSE s \in session : TRUE).sessionId # <<>>
  /\ FormRendered
  /\ reload("sessionExpired")

\* onNewPassage of the result screen
onNewPassage ==
  /\ AppRouter(session) = "ExamInterface"
  /\ ~FormRendered
  /\ reload("onNewPassage")

\* usePassages delivers the passages and the first one is selected
passagesLoaded ==
  /\ AppRouter(session) = "ExamInterface"
  /\ actor
  /\ selectedPassage = 0
  /\ selectedPassage' = 1
  /\ timeLeft' = secs(1)
  /\ Event("passagesLoaded")
  /\ UNCHANGED <<storage, session, actor, awaiting, typedText, typedTextRef,
                 timerStarted, timer, submitted, submittedRef, examResult,
                 uncommitted, sends>>

\* resetExam, followed by the render it causes, with passage p selected
resetExam(p) ==
  /\ timer' = FALSE
  /\ typedText' = 0
  /\ typedTextRef' = 0
  /\ timerStarted' = FALSE
  /\ examResult' = NoResult
  /\ submitted' = FALSE
  /\ submittedRef' = FALSE
  /\ uncommitted' = FALSE
  /\ timeLeft' = secs(p)
  /\ sends' = 0

\* onValueChange of the passage Select, which is disabled while timerStarted
onValueChange(v) ==
  /\ AppRouter(session) = "ExamInterface"
  /\ FormRendered
  /\ selectedPassage # 0
  /\ ~timerStarted
  /\ selectedPassage' = v
  /\ resetExam(v)
  /\ Event("onValueChange")
  /\ UNCHANGED <<storage, session, actor, awaiting>>

\* onRestart of the result screen
onRestart ==
  /\ AppRouter(session) = "ExamInterface"
  /\ ~FormRendered
  /\ resetExam(selectedPassage)
  /\ Event("onRestart")
  /\ UNCHANGED <<storage, session, actor, awaiting, selectedPassage>>

\* handleTextareaChange with one more character, and the render it causes
handleTextareaChange ==
  /\ AppRouter(session) = "ExamInterface"
  /\ FormRendered
  /\ selectedPassage # 0
  /\ typedText < MaxTyped
  /\ typedText' = typedText + 1
  /\ typedTextRef' = typedText + 1
  /\ timerStarted' = TRUE
  /\ timer' = IF timerStarted THEN timer ELSE TRUE
  /\ submittedRef' = submitted
  /\ uncommitted' = FALSE
  /\ Event("handleTextareaChange")
  /\ UNCHANGED <<storage, session, actor, awaiting, selectedPassage, timeLeft,
                 submitted, examResult, sends>>

\* the test of doSubmit: a passage, a session and submittedRef.current unset
CanSubmit == selectedPassage # 0 /\ session # {} /\ ~submittedRef

\* doSubmit(text) up to its await
doSubmit(text) ==
  IF CanSubmit
  THEN /\ examResult' = text
       /\ submitted' = TRUE
       /\ sends' = IF actor THEN sends + 1 ELSE sends
  ELSE UNCHANGED <<examResult, submitted, sends>>

\* the interval's callback returning prev - 1 also when it is below zero
tick_Unfloored ==
  /\ timer
  /\ Event("tick")
  /\ IF timeLeft - 1 <= 0
     THEN /\ timer' = FALSE
          /\ timeLeft' = timeLeft - 1
          /\ doSubmit(typedTextRef)
          /\ uncommitted' = (uncommitted \/ CanSubmit)
     ELSE /\ timeLeft' = timeLeft - 1
          /\ UNCHANGED <<timer, examResult, submitted, sends, uncommitted>>
  /\ UNCHANGED <<storage, session, actor, awaiting, selectedPassage,
                 typedText, typedTextRef, timerStarted, submittedRef>>

\* one call of the interval's callback
tick ==
  /\ timer
  /\ Event("tick")
  /\ IF timeLeft - 1 <= 0
     THEN /\ timer' = FALSE
          /\ timeLeft' = 0
          /\ doSubmit(typedTextRef)
          /\ uncommitted' = (uncommitted \/ CanSubmit)
     ELSE /\ timeLeft' = timeLeft - 1
          /\ UNCHANGED <<timer, examResult, submitted, sends, uncommitted>>
  /\ UNCHANGED <<storage, session, actor, awaiting, selectedPassage,
                 typedText, typedTextRef, timerStarted, submittedRef>>

\* React renders the state the timer set and runs the effects: the refs are
\* synchronised, and the timer effect sets the interval again when doSubmit
\* is a new function
render(again) ==
  /\ uncommitted
  /\ uncommitted' = FALSE
  /\ submittedRef' = submitted
  /\ timer' = (again /\ timerStarted)
  /\ Event("render")
  /\ UNCHANGED <<storage, session, actor, awaiting, selectedPassage,
                 typedText, typedTextRef, timerStarted, timeLeft, submitted,
                 examResult, sends>>

\* onClick of the Submit button, and the render it causes
onClick(again) ==
  /\ AppRouter(session) = "ExamInterface"
  /\ FormRendered
  /\ typedText > 0
  /\ ~submittedRef
  /\ doSubmit(typedText)
  /\ submittedRef' = submitted'
  /\ uncommitted' = FALSE
  /\ timer' = IF CanSubmit THEN (again /\ timerStarted) ELSE timer
  /\ Event("onClick")
  /\ UNCHANGED <<storage, session, actor, awaiting, selectedPassage,
                 typedText, typedTextRef, timerStarted, timeLeft>>

ClientNext ==
  \/ actorReady
  \/ \E s \in SessionInputs : handleLogin(s)
  \/ handleLogout
  \/ \E resolved \in BOOLEAN : handleLogoutResumes(resolved)
  \/ sessionExpired
  \/ onNewPassage
  \/ passagesLoaded
  \/ \E v \in 1..2 : onValueChange(v)
  \/ onRestart
  \/ handleTextareaChange
  \/ tick
  \/ \E again \in BOOLEAN : render(again)
  \/ \E again \in BOOLEAN : onClick(again)

ClientSpec == Init /\ [][ClientNext]_vars

\* the interval's callback and the render that follows a timer's submission
\* are run as long as they are due
ClientLive ==
  /\ ClientSpec
  /\ WF_vars(tick)
  /\ WF_vars(\E again \in BOOLEAN : render(again))

\* C35: in one exam attempt, from a mounted or reset exam to its result,
\* submitTestResult is sent to the backend at most once.
C35_SentAtMostOnce == sends <= 1

\* C36: timerStarted becomes true only by typing the first character; a tick
\* lowers the remaining time by one, not below zero; a tick that brings it
\* to zero while nothing is submitted sets the result to the text typed so
\* far; the selected passage does not change while the timer is started;
\* the remaining time is never negative; and a started timer leads to a
\* result, unless the exam is reset or left.
C36_TimerRuns ==
  /\ [][ /\ (timerStarted' /\ ~timerStarted)
              => /\ event' = "handleTextareaChange"
                 /\ typedText = 0
                 /\ typedText' = 1
         /\ (event' = "tick")
              => /\ timeLeft' = IF timeLeft > 0 THEN timeLeft - 1 ELSE 0
                 /\ (timeLeft' = 0 /\ examResult = NoResult)
                      => (examResult' = typedText /\ submitted')
         /\ (timerStarted /\ timerStarted')
              => (selectedPassage' = selectedPassage) ]_vars
  /\ [](timeLeft >= 0)
  /\ (timerStarted ~> (examResult # NoResult \/ ~timerStarted))

\* the timer reached zero and submitted the text typed so far
C36_Witness ==
  /\ event = "tick"
  /\ timeLeft = 0
  /\ timerStarted
  /\ examResult = typedText
  /\ typedText > 0
  /\ uncommitted

\* C37: the reload that follows a negative session poll leaves no stored
\* session and no session in memory, and the login screen is shown.
C37_ExpiredSessionDropped ==
  [][ (event' = "sessionExpired")
        => /\ storage' = {}
           /\ session' = {}
           /\ AppRouter(session') = "AuthScreen" ]_vars

\* C38: the stored session is the JSON text of the session in memory, and
\* absent when that is null; a provider mounted now starts with the session
\* in memory; the router shows the login screen exactly for the null
\* session, the admin panel exactly for a session with the admin mobile and
\* the exam otherwise.
C38_StorageMirrorsSession ==
  /\ storage = {stringify(s) : s \in session}
  /\ StoredSession(storage) = session
  /\ (AppRouter(session) = "AuthScreen") <=> (session = {})
  /\ (AppRouter(session) = "AdminPanel")
       <=> (\E s \in session : s.mobile = adminMobile)
  /\ (AppRouter(session) = "ExamInterface")
       <=> (\E s \in session : s.mobile # adminMobile)

\* the page was loaded again after a login and started with the session
C38_Witness ==
  /\ event = "onNewPassage"
  /\ session # {}
  /\ ~actor

\* C39: handleLogout with an actor and a session issues the backend logout
\* and leaves the local session as it is until the call settles; without
\* one of them it clears the local session at once; when the call settles,
\* resolved or rejected, the session in memory and the stored session are
\* cleared.
C39_LogoutClearsSession ==
  [][ /\ (event' = "handleLogout")
           => IF actor /\ session # {}
              THEN /\ awaiting' = awaiting + 1
                   /\ UNCHANGED <<session, storage>>
              ELSE /\ awaiting' = awaiting
                   /\ session' = {}
                   /\ storage' = {}
      /\ (event' \in {"logoutResolved", "logoutRejected"})
           => /\ awaiting > 0
              /\ session' = {}
              /\ storage' = {} ]_vars

\* the backend logout was rejected and the local session was cleared
C39_Witness ==
  /\ event = "logoutRejected"
  /\ session = {}
  /\ storage = {}
  /\ awaiting = 0

====
